---- MODULE Spec2Model ----
(***************************************************************************)
(* State-machine model of src/app.py: the upload -> convert -> catalog     *)
(* workflow of the STP viewer.  File names are sequences of one-character  *)
(* strings; the two directories (uploads/ and static/) are finite maps     *)
(* from file name to file content.                                         *)
(***************************************************************************)
EXTENDS Integers, Sequences, FiniteSets, TLC

VARIABLES HAS_OCC, uploads, static, clock, resp, last, nup, req

vars == <<HAS_OCC, uploads, static, clock, resp, last, nup, req>>

(***************************************************************************)
(* Bounds of the model.                                                    *)
(***************************************************************************)
MaxUploads == 2
MaxClock == 1

(***************************************************************************)
(* Strings.                                                                *)
(***************************************************************************)
None == <<>>

Lower1(c) ==
  CASE c = "A" -> "a" [] c = "S" -> "s" [] c = "T" -> "t"
    [] c = "P" -> "p" [] c = "E" -> "e" [] OTHER -> c

lower(s) == [i \in 1..Len(s) |-> Lower1(s[i])]

Max(S) == CHOOSE x \in S : \A y \in S : y <= x

\* position of the last '.' of s, 0 when s holds none
LastDot(s) ==
  LET D == {i \in 1..Len(s) : s[i] = "."} IN IF D = {} THEN 0 ELSE Max(D)

\* s.rsplit('.', 1)
rsplit(s) ==
  IF LastDot(s) = 0 THEN <<s>>
  ELSE <<SubSeq(s, 1, LastDot(s) - 1), SubSeq(s, LastDot(s) + 1, Len(s))>>

ALLOWED_EXTENSIONS == {<<"s", "t", "p">>, <<"s", "t", "e", "p">>}

\* variant: the extension taken after the first '.', filename.split('.')[1]
allowed_file_split(filename) ==
  /\ \E i \in 1..Len(filename) : filename[i] = "."
  /\ LET D == {i \in 1..Len(filename) : filename[i] = "."}
         first == CHOOSE i \in D : \A j \in D : i <= j
         rest == {j \in D : j > first}
         stop == IF rest = {} THEN Len(filename) + 1
                 ELSE CHOOSE i \in rest : \A j \in rest : i <= j
     IN lower(SubSeq(filename, first + 1, stop - 1)) \in ALLOWED_EXTENSIONS

allowed_file(filename) ==
  /\ \E i \in 1..Len(filename) : filename[i] = "."
  /\ lower(rsplit(filename)[2]) \in ALLOWED_EXTENSIONS

(***************************************************************************)
(* werkzeug.utils.secure_filename, on the characters of the model: "/" is  *)
(* the path separator, " " is whitespace, "#" stands for the characters    *)
(* outside [A-Za-z0-9_.-].                                                 *)
(***************************************************************************)
RECURSIVE ReplaceSep(_)
ReplaceSep(s) ==
  IF s = <<>> THEN <<>>
  ELSE <<IF Head(s) = "/" THEN " " ELSE Head(s)>> \o ReplaceSep(Tail(s))

\* "_".join(s.split()): runs of whitespace collapse to one "_", and the
\* whitespace at either end is dropped
RECURSIVE LStripWs(_)
LStripWs(s) ==
  IF s # <<>> /\ Head(s) = " " THEN LStripWs(Tail(s)) ELSE s

RECURSIVE JoinSplit(_)
JoinSplit(s) ==
  LET t == LStripWs(s) IN
  IF t = <<>> THEN <<>>
  ELSE IF s # <<>> /\ Head(s) = " " THEN <<"_">> \o JoinSplit(t)
  ELSE <<Head(s)>> \o JoinSplit(Tail(s))

UnderscoreJoin(s) == JoinSplit(LStripWs(s))

RECURSIVE AsciiStrip(_)
AsciiStrip(s) ==
  IF s = <<>> THEN <<>>
  ELSE IF Head(s) \in {"#", " ", "/"} THEN AsciiStrip(Tail(s))
  ELSE <<Head(s)>> \o AsciiStrip(Tail(s))

RECURSIVE LStripDots(_)
LStripDots(s) ==
  IF s # <<>> /\ Head(s) \in {".", "_"} THEN LStripDots(Tail(s)) ELSE s

RECURSIVE RStripDots(_)
RStripDots(s) ==
  IF s # <<>> /\ s[Len(s)] \in {".", "_"}
  THEN RStripDots(SubSeq(s, 1, Len(s) - 1)) ELSE s

secure_filename(s) ==
  RStripDots(LStripDots(AsciiStrip(UnderscoreJoin(ReplaceSep(s)))))

(***************************************************************************)
(* Files and directories.                                                  *)
(***************************************************************************)
Put(dir, name, file) ==
  [n \in (DOMAIN dir) \cup {name} |-> IF n = name THEN file ELSE dir[n]]

\* the bodies a client submits: sequences of chunks
Cube == <<"cube1", "cube2">>
Bolt == <<"bolt1">>
Garbage == <<"junk1">>
NoRoots == <<"hdr1", "hdr2", "hdr3">>
Contents == {Cube, Garbage, NoRoots}

(***************************************************************************)
(* The geometry kernel, as convert_stp_to_stl uses it.                     *)
(***************************************************************************)
\* STEPControl_Reader.ReadFile: the statuses the kernel may report
ReadFile(bytes) ==
  IF bytes \in {Cube, Bolt, NoRoots} THEN {"RetDone"}
  ELSE IF bytes \in {Garbage, <<>>} THEN {"RetFail"}
  ELSE {"RetDone", "RetFail"}

\* OneShape().IsNull()
IsNull(bytes) == bytes = NoRoots

\* BRepMesh_IncrementalMesh + StlAPI_Writer: the binary STL of a shape
Mesh(bytes) == [i \in 1..2 |-> [of |-> bytes, part |-> i]]

\* StlAPI_Writer.Write: the file is written, or the write fails leaving
\* the target untouched, or fails leaving a truncated file
WriteOutcomes == {"written", "failed", "failed_partial"}

\* convert_stp_to_stl(stp_path, stl_path): the exception raised ("" when it
\* returns True) and the results area it leaves
convert_stp_to_stl(has_occ, up, st, stp, stl, status, w) ==
  IF ~has_occ THEN [exc |-> "ImportError", static |-> st]
  ELSE IF status # "RetDone"
    THEN [exc |-> "ValueError: Error reading STEP file", static |-> st]
  ELSE IF IsNull(up[stp].bytes)
    THEN [exc |-> "ValueError: No shape found in STEP file", static |-> st]
  ELSE IF w = "written"
    THEN [exc |-> "", static |-> Put(st, stl, Mesh(up[stp].bytes))]
  ELSE [exc |-> "ValueError: Failed to write STL file",
        static |-> IF w = "failed" THEN st
                   ELSE Put(st, stl, SubSeq(Mesh(up[stp].bytes), 1, 1))]

(***************************************************************************)
(* Responses.                                                              *)
(***************************************************************************)
S_static == <<"/", "s", "t", "a", "t", "i", "c", "/">>
S_uploads == <<"/", "u", "p", "l", "o", "a", "d", "s", "/">>
S_stl == <<".", "s", "t", "l">>

Response(op, status) ==
  [op |-> op, status |-> status, error |-> "", success |-> FALSE,
   stl_file |-> None, stp_file |-> None, filename |-> None,
   needs_conversion |-> FALSE, files |-> <<>>, body |-> <<>>,
   asked |-> None]

NoUpload ==
  [raw |-> <<>>, hasFile |-> FALSE, accepted |-> FALSE, name |-> <<>>,
   bytes |-> <<>>, mtime |-> 0, resubmit |-> FALSE, exc |-> "",
   invoked |-> FALSE]

\* variant: the stem cut at the first '.', filename.split('.')[0] + '.stl'
stl_filename_split(filename) ==
  LET D == {i \in 1..Len(filename) : filename[i] = "."}
  IN (IF D = {} THEN filename
      ELSE SubSeq(filename, 1, (CHOOSE i \in D : \A j \in D : i <= j) - 1))
     \o <<".", "s", "t", "l">>

\* filename.rsplit('.', 1)[0] + '.stl'
stl_filename(filename) == rsplit(filename)[1] \o S_stl

Init ==
  /\ HAS_OCC \in BOOLEAN
  /\ uploads = <<>>
  /\ static = <<>>
  /\ clock = 0
  /\ resp = Response("none", 0)
  /\ last = NoUpload
  /\ nup = 0
  /\ req = <<>>

(***************************************************************************)
(* POST /upload                                                            *)
(***************************************************************************)
Reject(hasFile, raw, error) ==
  /\ resp' = [Response("upload", 400) EXCEPT !.error = error]
  /\ last' = [NoUpload EXCEPT !.raw = raw, !.hasFile = hasFile]
  /\ UNCHANGED <<uploads, static, clock>>

Converted(filename) ==
  [Response("upload", 200) EXCEPT
     !.success = TRUE,
     !.stl_file = S_static \o stl_filename(filename),
     !.filename = filename]

Degraded(filename) ==
  [Response("upload", 200) EXCEPT
     !.success = TRUE,
     !.stp_file = S_uploads \o filename,
     !.needs_conversion = TRUE]

Failed(exc) ==
  [Response("upload", 500) EXCEPT !.error = exc]

\* file.save(stp_path): the stored file and its modification time
Saved(bytes, t) == [bytes |-> bytes, mtime |-> t]

\* variant: the conversion called without the HAS_OCC test of line 110
ConvertAlways(has_occ, up, st, filename, status, w) ==
  LET conv == convert_stp_to_stl(has_occ, up, st, filename,
                                 stl_filename(filename), status, w)
  IN [resp |-> IF conv.exc = "" THEN Converted(filename)
               ELSE Failed(conv.exc),
      static |-> conv.static, exc |-> conv.exc, invoked |-> TRUE]

\* lines 106-125: convert when the kernel was imported, else the fallback
ConvertOrFallback(has_occ, up, st, filename, status, w) ==
  IF has_occ
  THEN LET conv == convert_stp_to_stl(has_occ, up, st, filename,
                                      stl_filename(filename), status, w)
       IN [resp |-> IF conv.exc = "" THEN Converted(filename)
                    ELSE Failed(conv.exc),
           static |-> conv.static, exc |-> conv.exc, invoked |-> TRUE]
  ELSE [resp |-> Degraded(filename), static |-> st, exc |-> "",
        invoked |-> FALSE]

upload_file(hasFile, raw, bytes, t, status, w) ==
  /\ nup' = nup + 1
  /\ UNCHANGED <<HAS_OCC, req>>
  /\ IF ~hasFile THEN Reject(FALSE, <<>>, "No file provided")
     ELSE IF raw = <<>> THEN Reject(TRUE, raw, "No file selected")
     ELSE IF ~allowed_file(raw) THEN Reject(TRUE, raw, "Invalid file type")
     ELSE
       LET filename == secure_filename(raw)
           up == Put(uploads, filename, Saved(bytes, t))
           out == ConvertOrFallback(HAS_OCC, up, static, filename, status, w)
       IN /\ uploads' = up
          /\ clock' = t
          /\ static' = out.static
          /\ resp' = out.resp
          /\ last' = [raw |-> raw, hasFile |-> TRUE, accepted |-> TRUE,
                      name |-> filename, bytes |-> bytes, mtime |-> t,
                      resubmit |-> filename \in DOMAIN uploads,
                      exc |-> out.exc, invoked |-> out.invoked]

\* the clock read by a save: it never runs backwards, and two saves may
\* fall on the same tick
Now == {t \in {clock, clock + 1} : t <= MaxClock}

(***************************************************************************)
(* GET /uploads/<filename> and GET /static/<filename>: send_file raises    *)
(* FileNotFoundError for a path that does not exist, and no handler        *)
(* catches it, so Flask answers 500.                                       *)
(***************************************************************************)
send_file(op, dir, filename, content) ==
  IF filename \in DOMAIN dir
  THEN [Response(op, 200) EXCEPT !.body = content, !.asked = filename]
  ELSE [Response(op, 500) EXCEPT !.error = "FileNotFoundError",
                                 !.asked = filename]

uploaded_file(filename) ==
  /\ resp' = send_file("uploaded_file", uploads, filename,
                       IF filename \in DOMAIN uploads
                       THEN uploads[filename].bytes ELSE <<>>)
  /\ UNCHANGED <<HAS_OCC, uploads, static, clock, last, nup, req>>

static_file(filename) ==
  /\ resp' = send_file("static_file", static, filename,
                       IF filename \in DOMAIN static
                       THEN static[filename] ELSE <<>>)
  /\ UNCHANGED <<HAS_OCC, uploads, static, clock, last, nup, req>>

(***************************************************************************)
(* GET /api/recent-uploads                                                 *)
(***************************************************************************)
LIMIT == 4

RECURSIVE Perms(_)
Perms(S) ==
  IF S = {} THEN {<<>>}
  ELSE UNION {{<<x>> \o q : q \in Perms(S \ {x})} : x \in S}

\* os.listdir(uploads_dir): every entry once, in an arbitrary order
listdir(dir) == Perms(DOMAIN dir)

\* datetime.fromtimestamp(t).isoformat()
isoformat(t) == [iso |-> t]

\* variant: the reference attached without the os.path.exists test
EntryNoCheck(filename) ==
  [filename |-> filename,
   stl_file |-> S_static \o stl_filename(filename),
   date |-> uploads[filename].mtime,
   size |-> Len(uploads[filename].bytes)]

\* lines 151-166: the entry appended for one directory entry
Entry(filename) ==
  LET stl == stl_filename(filename) IN
  [filename |-> filename,
   stl_file |-> IF stl \in DOMAIN static THEN S_static \o stl ELSE None,
   date |-> uploads[filename].mtime,
   size |-> Len(uploads[filename].bytes)]

RECURSIVE Scan(_)
Scan(names) ==
  IF names = <<>> THEN <<>>
  ELSE (IF allowed_file(Head(names)) THEN <<Entry(Head(names))>> ELSE <<>>)
       \o Scan(Tail(names))

\* variant: the sort without reverse=True
InsertAsc(sorted, e) ==
  LET k == Cardinality({i \in 1..Len(sorted) : sorted[i].date <= e.date})
  IN SubSeq(sorted, 1, k) \o <<e>> \o SubSeq(sorted, k + 1, Len(sorted))

\* files.sort(key=date, reverse=True): a stable sort, so entries with equal
\* dates keep the order of the scan
InsertDesc(sorted, e) ==
  LET k == Cardinality({i \in 1..Len(sorted) : sorted[i].date >= e.date})
  IN SubSeq(sorted, 1, k) \o <<e>> \o SubSeq(sorted, k + 1, Len(sorted))

RECURSIVE SortDesc(_)
SortDesc(files) ==
  IF files = <<>> THEN <<>>
  ELSE InsertDesc(SortDesc(SubSeq(files, 1, Len(files) - 1)),
                  files[Len(files)])

\* files[:4]
Truncate(files) ==
  SubSeq(files, 1, IF Len(files) < LIMIT THEN Len(files) ELSE LIMIT)

Recent(names) ==
  LET files == Truncate(SortDesc(Scan(names)))
  IN [i \in 1..Len(files) |->
        [files[i] EXCEPT !.date = isoformat(files[i].date)]]

get_recent_uploads(names) ==
  /\ resp' = [Response("recent", 200) EXCEPT !.files = Recent(names)]
  /\ UNCHANGED <<HAS_OCC, uploads, static, clock, last, nup, req>>

(***************************************************************************)
(* The requests a client sends, one at a time.                             *)
(***************************************************************************)
PipelineNames ==
  { <<"a", ".", "s", "t", "p">>,
    <<"b", ".", "S", "T", "P">> }

RawNames ==
  { <<"a", ".", "s", "t", "p">>,
    <<"b", ".", "S", "T", "P">>,
    <<".", "s", "t", "p">>,
    <<"x", "/", "a", ".", "s", "t", "p">>,
    <<".", ".", "/", "a", ".", "S", "t", "e", "p">>,
    <<"a", " ", "#", "b", ".", "s", "t", "e", "p">>,
    <<"a", ".", "b", ".", "s", "t", "p">>,
    <<"a", ".", "t", "x", "t">>,
    <<"a", ".", "s", "t", "p", ".">>,
    <<"a", ".", "s", "t", "p", "/">>,
    <<"s", "t", "p">>,
    <<"a", ".", "s", "t", "l">>,
    <<>> }

CatNames ==
  { <<"a", ".", "s", "t", "p">>,
    <<"b", ".", "S", "T", "P">>,
    <<"s", ".", "s", "t", "e", "p">>,
    <<"t", ".", "s", "t", "p">>,
    <<"e", ".", "s", "t", "p">> }

FetchNames ==
  { <<"a", ".", "s", "t", "p">>, <<"a", ".", "s", "t", "l">> }

\* a POST without a 'file' part, or one file part with its name and body;
\* the kernel's read status and write outcome are drawn with the request
Submit(names, contents, writes) ==
  \/ upload_file(FALSE, <<>>, <<>>, clock, "RetDone", "written")
  \/ \E raw \in names, bytes \in contents, t \in Now, w \in writes :
       \E status \in ReadFile(bytes) :
         upload_file(TRUE, raw, bytes, t, status, w)

Upload ==
  /\ nup < MaxUploads
  /\ Submit(PipelineNames, Contents, WriteOutcomes)

UploadNamed ==
  /\ nup < MaxUploads
  /\ Submit(RawNames, {Bolt}, {"written"})

FetchUpload == \E f \in FetchNames : uploaded_file(f)

FetchStatic == \E f \in FetchNames : static_file(f)

ListRecent == \E names \in listdir(uploads) : get_recent_uploads(names)

Next == Upload \/ FetchUpload \/ FetchStatic \/ ListRecent

Spec == Init /\ [][Next]_vars

NextNames == UploadNamed \/ ListRecent

SpecNames == Init /\ [][NextNames]_vars

(***************************************************************************)
(* The catalog over an uploads area left by earlier runs: line 38 keeps a  *)
(* directory that exists, so the service starts over whatever accepted     *)
(* uploads (and, with the kernel, their meshes) are already stored.        *)
(***************************************************************************)
InitCat ==
  /\ HAS_OCC \in BOOLEAN
  /\ \E S \in SUBSET CatNames :
       \E m \in [S -> 0..MaxClock] :
         /\ uploads = [n \in S |-> Saved(Bolt, m[n])]
         /\ static = IF HAS_OCC
                     THEN [n \in {stl_filename(f) : f \in S} |-> Mesh(Bolt)]
                     ELSE <<>>
         /\ clock = IF S = {} THEN 0 ELSE Max({m[n] : n \in S})
  /\ resp = Response("none", 0)
  /\ last = NoUpload
  /\ nup = 0
  /\ req = <<>>

NextCat == ListRecent

SpecCat == InitCat /\ [][NextCat]_vars

(***************************************************************************)
(* Two POST /upload requests served by two threads.  upload_file holds no  *)
(* lock, so the steps of the two requests interleave: file.save opens the  *)
(* target for writing (truncating it) and copies the body chunk by chunk,  *)
(* each thread at its own offset; the kernel reads the stored file, and    *)
(* the STL writer opens and writes its target the same way.                *)
(***************************************************************************)
Requests == {1, 2}

ConcNames == {<<"a", ".", "s", "t", "p">>, <<"/", "a", ".", "s", "t", "p">>}

ConcContents == {Cube, Bolt}

Zero == "zero"

ZeroMesh == [of |-> <<>>, part |-> 0]

\* write(2) of one chunk at position i of a file: a write past the end
\* leaves a hole of zeros
WriteAt(file, i, chunk, hole) ==
  IF i <= Len(file) THEN [file EXCEPT ![i] = chunk]
  ELSE file \o [k \in 1..(i - Len(file) - 1) |-> hole] \o <<chunk>>

NewRequest(raw, bytes) ==
  [pc |-> "start", raw |-> raw, bytes |-> bytes, filename |-> None,
   off |-> 0, shape |-> <<>>, w |-> "written", moff |-> 0,
   saved |-> 0, wrote |-> 0, resp |-> Response("none", 0)]

InitConc ==
  /\ HAS_OCC \in BOOLEAN
  /\ uploads = <<>>
  /\ static = <<>>
  /\ clock = 0
  /\ resp = Response("none", 0)
  /\ last = NoUpload
  /\ nup = 0
  /\ \E n1 \in ConcNames, n2 \in ConcNames, b1 \in ConcContents,
        b2 \in ConcContents :
       req = [r \in Requests |->
                IF r = 1 THEN NewRequest(n1, b1) ELSE NewRequest(n2, b2)]

Order(field) == 1 + Cardinality({q \in Requests : req[q][field] > 0})

Finish(r, response) ==
  req' = [req EXCEPT ![r].pc = "done", ![r].resp = response]

\* lines 89-102
Begin(r) ==
  /\ req[r].pc = "start"
  /\ IF req[r].raw = <<>>
     THEN Finish(r, [Response("upload", 400) EXCEPT
                       !.error = "No file selected"])
     ELSE IF ~allowed_file(req[r].raw)
     THEN Finish(r, [Response("upload", 400) EXCEPT
                       !.error = "Invalid file type"])
     ELSE req' = [req EXCEPT ![r].pc = "open",
                             ![r].filename = secure_filename(req[r].raw)]
  /\ UNCHANGED <<HAS_OCC, uploads, static, clock, resp, last, nup>>

\* line 104, file.save: open(dst, "wb")
OpenDst(r) ==
  /\ req[r].pc = "open"
  /\ \E t \in Now :
       /\ uploads' = Put(uploads, req[r].filename, Saved(<<>>, t))
       /\ clock' = t
  /\ req' = [req EXCEPT ![r].pc = "write", ![r].off = 0]
  /\ UNCHANGED <<HAS_OCC, static, resp, last, nup>>

\* line 104, file.save: one dst.write(chunk) of the copy loop; the save is
\* complete once its last chunk is written (close writes nothing more)
WriteChunk(r) ==
  /\ req[r].pc = "write"
  /\ req[r].off < Len(req[r].bytes)
  /\ \E t \in Now :
       /\ uploads' =
            Put(uploads, req[r].filename,
                Saved(WriteAt(uploads[req[r].filename].bytes, req[r].off + 1,
                              req[r].bytes[req[r].off + 1], Zero), t))
       /\ clock' = t
  /\ req' = [req EXCEPT
               ![r].off = @ + 1,
               ![r].saved = IF req[r].off + 1 = Len(req[r].bytes)
                            THEN Order("saved") ELSE @]
  /\ UNCHANGED <<HAS_OCC, static, resp, last, nup>>

\* file.save has returned: lines 107-110, and 119-125 without the kernel
AfterSave(r) ==
  /\ req[r].pc = "write"
  /\ req[r].off = Len(req[r].bytes)
  /\ req' = [req EXCEPT
               ![r].pc = IF HAS_OCC THEN "read" ELSE "done",
               ![r].resp = IF HAS_OCC THEN @ ELSE Degraded(req[r].filename)]
  /\ UNCHANGED <<HAS_OCC, uploads, static, clock, resp, last, nup>>

\* lines 50-67: the kernel reads the stored file and builds the shape
ReadStep(r) ==
  /\ req[r].pc = "read"
  /\ LET stored == uploads[req[r].filename].bytes IN
     \E status \in ReadFile(stored), w \in WriteOutcomes :
       IF status # "RetDone"
       THEN Finish(r, Failed("ValueError: Error reading STEP file"))
       ELSE IF IsNull(stored)
       THEN Finish(r, Failed("ValueError: No shape found in STEP file"))
       ELSE req' = [req EXCEPT ![r].pc = "openstl", ![r].shape = stored,
                               ![r].w = w]
  /\ UNCHANGED <<HAS_OCC, uploads, static, clock, resp, last, nup>>

\* line 76, StlAPI_Writer.Write: the target is opened for writing
StlOpen(r) ==
  /\ req[r].pc = "openstl"
  /\ IF req[r].w = "failed"
     THEN /\ Finish(r, Failed("ValueError: Failed to write STL file"))
          /\ UNCHANGED static
     ELSE /\ static' = Put(static, stl_filename(req[r].filename), <<>>)
          /\ req' = [req EXCEPT ![r].pc = "writestl", ![r].moff = 0]
  /\ UNCHANGED <<HAS_OCC, uploads, clock, resp, last, nup>>

\* line 76, StlAPI_Writer.Write: one block of triangles is written
StlWrite(r) ==
  /\ req[r].pc = "writestl"
  /\ req[r].moff < Len(Mesh(req[r].shape))
  /\ IF req[r].w = "failed_partial" /\ req[r].moff = 1
     THEN /\ Finish(r, Failed("ValueError: Failed to write STL file"))
          /\ UNCHANGED static
     ELSE /\ static' =
               Put(static, stl_filename(req[r].filename),
                   WriteAt(static[stl_filename(req[r].filename)],
                           req[r].moff + 1,
                           Mesh(req[r].shape)[req[r].moff + 1], ZeroMesh))
          /\ req' = [req EXCEPT
                       ![r].moff = @ + 1,
                       ![r].wrote = IF req[r].moff + 1 = Len(Mesh(req[r].shape))
                                    THEN Order("wrote") ELSE @]
  /\ UNCHANGED <<HAS_OCC, uploads, clock, resp, last, nup>>

\* lines 78-81 and 112-117: the write succeeded
StlClose(r) ==
  /\ req[r].pc = "writestl"
  /\ req[r].moff = Len(Mesh(req[r].shape))
  /\ req' = [req EXCEPT ![r].pc = "done",
                        ![r].resp = Converted(req[r].filename)]
  /\ UNCHANGED <<HAS_OCC, uploads, static, clock, resp, last, nup>>

NextConc ==
  \E r \in Requests :
    \/ Begin(r) \/ OpenDst(r) \/ WriteChunk(r) \/ AfterSave(r)
    \/ ReadStep(r) \/ StlOpen(r) \/ StlWrite(r) \/ StlClose(r)

SpecConc == InitConc /\ [][NextConc]_vars

(***************************************************************************)
(* Properties.  The spec's notions are stated here on their own terms:     *)
(* the extension is the text after the last '.', the stem the text before  *)
(* it.                                                                     *)
(***************************************************************************)
HasDot(s) == \E i \in 1..Len(s) : s[i] = "."

\* k is the position of the last '.' of s
IsLastDot(s, k) ==
  /\ k \in 1..Len(s)
  /\ s[k] = "."
  /\ \A j \in (k + 1)..Len(s) : s[j] # "."

ValidName(s) ==
  \E k \in 1..Len(s) :
    /\ IsLastDot(s, k)
    /\ lower(SubSeq(s, k + 1, Len(s))) \in {<<"s", "t", "p">>,
                                           <<"s", "t", "e", "p">>}

IsStemOf(st, s) ==
  IF HasDot(s)
  THEN \E k \in 1..Len(s) : IsLastDot(s, k) /\ st = SubSeq(s, 1, k - 1)
  ELSE st = s

Listed(files, name) == {i \in 1..Len(files) : files[i].filename = name}

Posted == nup' = nup + 1 /\ last'.hasFile

\* C1 as stated: every submitted filename without an allow-set extension
\* (or without a '.') is rejected with InvalidExtension, HTTP 400, and
\* neither area changes and no conversion is attempted.
C1_InvalidExtensionRejected ==
  [][(Posted /\ ~ValidName(last'.raw)) =>
       /\ resp'.status = 400
       /\ resp'.error = "Invalid file type"
       /\ uploads' = uploads
       /\ static' = static
       /\ ~last'.invoked]_vars

\* C1 amended: the same for every non-empty submitted filename; the empty
\* filename is rejected with HTTP 400 too, but as EmptyFilename.
C1_NonEmptyInvalidExtensionRejected ==
  [][(Posted /\ ~ValidName(last'.raw)) =>
       /\ resp'.status = 400
       /\ resp'.error = IF last'.raw = <<>> THEN "No file selected"
                        ELSE "Invalid file type"
       /\ uploads' = uploads
       /\ static' = static
       /\ ~last'.invoked]_vars

C1_Witness ==
  /\ resp.op = "upload"
  /\ last.hasFile
  /\ last.raw = <<"a", ".", "s", "t", "p", ".">>
  /\ resp.status = 400
  /\ uploads # <<>>

\* C2: for every accepted submission the derived filename (written to the
\* results area and returned in the response) is the stem of the sanitized
\* filename followed by '.stl'.
C2_DerivedFilename ==
  (resp.op = "upload" /\ last.accepted /\ last.invoked /\ last.exc = "") =>
    \E k \in 0..Len(last.name) :
      LET st == SubSeq(last.name, 1, k) IN
      /\ IsStemOf(st, last.name)
      /\ resp.stl_file = S_static \o st \o S_stl
      /\ resp.filename = last.name
      /\ (st \o S_stl) \in DOMAIN static
      /\ static[st \o S_stl] = Mesh(last.bytes)

C2_Witness ==
  /\ resp.op = "upload"
  /\ last.raw = <<".", ".", "/", "a", ".", "S", "t", "e", "p">>
  /\ last.name = <<"a", ".", "S", "t", "e", "p">>
  /\ resp.stl_file = S_static \o <<"a">> \o S_stl

\* C3: after the same filename is submitted twice, a following listing
\* holds exactly one entry for it, with the size, timestamp and mesh of
\* the latest submission.
C3_ResubmitReflectsLatest ==
  (resp.op = "recent" /\ last.accepted /\ last.resubmit) =>
    /\ uploads[last.name].bytes = last.bytes
    /\ Cardinality(Listed(resp.files, last.name)) = 1
    /\ \A i \in Listed(resp.files, last.name) :
         /\ resp.files[i].size = Len(last.bytes)
         /\ resp.files[i].date = isoformat(last.mtime)
         /\ resp.files[i].stl_file # None =>
              \E d \in DOMAIN static :
                /\ resp.files[i].stl_file = S_static \o d
                /\ static[d] = Mesh(last.bytes)

\* C4: a listing holds at most 4 entries, newest first, and they are the
\* newest allow-set files: no omitted allow-set file is strictly newer than
\* a returned one.
C4_RecentBounded ==
  resp.op = "recent" =>
    LET files == resp.files
        names == {files[i].filename : i \in 1..Len(files)}
    IN /\ Len(files) <= 4
       /\ Cardinality(names) = Len(files)
       /\ \A i \in 1..Len(files) :
            /\ files[i].filename \in DOMAIN uploads
            /\ ValidName(files[i].filename)
            /\ files[i].date = isoformat(uploads[files[i].filename].mtime)
       /\ \A i \in 1..Len(files), j \in 1..Len(files) :
            i < j => files[i].date.iso >= files[j].date.iso
       /\ \A f \in DOMAIN uploads :
            (ValidName(f) /\ f \notin names) =>
              /\ Len(files) = 4
              /\ \A i \in 1..Len(files) :
                   uploads[f].mtime <= files[i].date.iso

C4_Witness ==
  /\ resp.op = "recent"
  /\ Len(resp.files) = 4
  /\ Cardinality(DOMAIN uploads) = 5
  /\ resp.files[1].date.iso > resp.files[4].date.iso
  /\ \E f \in DOMAIN uploads :
       /\ \A i \in 1..4 : resp.files[i].filename # f
       /\ uploads[f].mtime = resp.files[4].date.iso

\* C5: an entry's mesh reference is '/static/<stem>.stl' exactly when
\* '<stem>.stl' exists in the results area, and null otherwise.
C5_MeshReference ==
  resp.op = "recent" =>
    \A i \in 1..Len(resp.files) :
      \E k \in 0..Len(resp.files[i].filename) :
        LET st == SubSeq(resp.files[i].filename, 1, k) IN
        /\ IsStemOf(st, resp.files[i].filename)
        /\ resp.files[i].stl_file =
             IF (st \o S_stl) \in DOMAIN static
             THEN S_static \o st \o S_stl ELSE None

C5_Witness ==
  /\ resp.op = "recent"
  /\ \E i \in 1..Len(resp.files) : resp.files[i].stl_file = None
  /\ \E i \in 1..Len(resp.files) : resp.files[i].stl_file # None

\* C6: without the kernel every valid submission succeeds in degraded form
\* (stp_file, needs_conversion, no stl_file), the bytes are stored, the
\* conversion is not invoked, the results area is unchanged, and the
\* listing keeps answering.
C6_DegradedMode ==
  [][~HAS_OCC =>
       /\ (Posted /\ ValidName(last'.raw)) =>
            /\ resp'.status = 200
            /\ resp'.success
            /\ resp'.error = ""
            /\ resp'.stp_file = S_uploads \o secure_filename(last'.raw)
            /\ resp'.needs_conversion
            /\ resp'.stl_file = None
            /\ secure_filename(last'.raw) \in DOMAIN uploads'
            /\ uploads'[secure_filename(last'.raw)].bytes = last'.bytes
            /\ ~last'.invoked
            /\ static' = static
       /\ resp'.op = "recent" =>
            /\ resp'.status = 200
            /\ \A f \in DOMAIN uploads :
                 ValidName(f) =>
                   (Listed(resp'.files, f) # {} \/ Len(resp'.files) = 4)]_vars

C6_Witness ==
  /\ ~HAS_OCC
  /\ resp.op = "recent"
  /\ last.accepted
  /\ Listed(resp.files, last.name) # {}
  /\ resp.files[1].stl_file = None

\* C7: when a conversion fails the response is an HTTP 500 without a
\* derived-asset reference, and a following listing attaches to that source
\* no mesh other than one converted from the stored source.
C7_NoResultAfterFailure ==
  (last.accepted /\ last.exc # "") =>
    /\ resp.op = "upload" => (resp.status = 500 /\ resp.stl_file = None)
    /\ resp.op = "recent" =>
         \A i \in Listed(resp.files, last.name) :
           resp.files[i].stl_file # None =>
             \E d \in DOMAIN static :
               /\ resp.files[i].stl_file = S_static \o d
               /\ static[d] = Mesh(uploads[last.name].bytes)

\* C8: a fetch returns the file's bytes when it exists in its area, and a
\* 404 when it does not.
C8_FetchNotFound ==
  /\ resp.op = "uploaded_file" =>
       IF resp.asked \in DOMAIN uploads
       THEN resp.status = 200 /\ resp.body = uploads[resp.asked].bytes
       ELSE resp.status = 404
  /\ resp.op = "static_file" =>
       IF resp.asked \in DOMAIN static
       THEN resp.status = 200 /\ resp.body = static[resp.asked]
       ELSE resp.status = 404

\* C9: once two concurrent submissions of one sanitized filename have both
\* completed, the uploads area holds exactly the bytes of the submission
\* whose save completed last, and the results area the mesh whose write
\* completed last.
C9_LastWriterWins ==
  (\A r \in Requests : req[r].pc = "done") =>
    /\ \A r \in Requests :
         req[r].saved = Cardinality(Requests) =>
           uploads[req[r].filename].bytes = req[r].bytes
    /\ \A r \in Requests :
         (req[r].wrote > 0 /\ \A q \in Requests : req[q].wrote <= req[r].wrote)
           => static[stl_filename(req[r].filename)] = Mesh(req[r].shape)

\* C10: every accepted submission is stored under a name that passes the
\* extension check itself, so a listing of an uploads area of at most 4
\* files shows it.
C10_StoredNameAllowed ==
  last.accepted =>
    /\ ValidName(last.name)
    /\ (resp.op = "recent" /\ Cardinality(DOMAIN uploads) <= 4) =>
         Listed(resp.files, last.name) # {}

====
